---- MODULE Spec2Model ----
(***************************************************************************)
(* Model of demucs-sagemaker-backend/serve.py: the POST /invocations       *)
(* request lifecycle (validate, download, makedirs, run the separation     *)
(* tool, scan the conventional output directory, upload, cleanup) over a   *)
(* local filesystem (/tmp/uploads, /tmp/output) and an S3 store that are    *)
(* shared by all requests of the process.                                  *)
(*                                                                         *)
(* Python strings are sequences of one-character strings, so that          *)
(* parse_s3_uri, os.path.basename, Path.stem and str.rstrip are computed   *)
(* as the code computes them.                                              *)
(***************************************************************************)
EXTENDS Integers, Sequences, FiniteSets, TLC

VARIABLES
    pc,          \* per worker thread: position inside invocations()
    req,         \* per worker thread: the locals of invocations()
    resp,        \* per worker thread: the (body, status) pair returned
    calls,       \* per worker thread: the I/O calls the request has made
    uploadDir,   \* /tmp/uploads: file name -> number of the request whose
                 \* download wrote the content, 0 when the file is absent
    outDirs,     \* the session ids s for which /tmp/output/<s> exists
    sep,         \* /tmp/output/<s>/htdemucs/<stem>: NoDir, or file name ->
                 \* number of the request whose tool run wrote it (0 absent)
    s3,          \* the <<bucket, key>> pairs stored by upload_file
    nextId,      \* number given to the next request
    cleanupThrew,\* history: some cleanup_local_files call caught an exception
    raced        \* history: workers whose not yet uploaded output files were
                 \* removed by another request's rmtree

vars == <<pc, req, resp, calls, uploadDir, outDirs, sep, s3, nextId,
          cleanupThrew, raced>>

(***************************************************************************)
(* Bounds of the model.                                                    *)
(***************************************************************************)
MaxRequests == 3

Workers == {1, 2}

(***************************************************************************)
(* String functions.                                                       *)
(***************************************************************************)
S3_SCHEME == <<"s", "3", ":", "/", "/">>
UPLOAD_DIR == <<"/", "t", "m", "p", "/", "u", "p", "l", "o", "a", "d", "s">>
OUTPUT_DIR == <<"/", "t", "m", "p", "/", "o", "u", "t", "p", "u", "t">>
DEFAULT_SESSION == <<"d", "e", "f", "a", "u", "l", "t">>

StartsWith(s, p) == Len(s) >= Len(p) /\ SubSeq(s, 1, Len(p)) = p

\* str.replace(old, ""): every non-overlapping occurrence, left to right
RECURSIVE Replace(_, _)
Replace(s, old) ==
    IF s = <<>> THEN <<>>
    ELSE IF StartsWith(s, old)
         THEN Replace(SubSeq(s, Len(old) + 1, Len(s)), old)
         ELSE <<Head(s)>> \o Replace(Tail(s), old)

\* str.find / str.rfind of one character, 0 when absent (1-based otherwise)
Find(s, c) ==
    IF \E i \in 1..Len(s) : s[i] = c
    THEN CHOOSE i \in 1..Len(s) : s[i] = c /\ \A j \in 1..(i - 1) : s[j] # c
    ELSE 0

RFind(s, c) ==
    IF \E i \in 1..Len(s) : s[i] = c
    THEN CHOOSE i \in 1..Len(s) : s[i] = c /\ \A j \in (i + 1)..Len(s) : s[j] # c
    ELSE 0

\* str.split(c, 1)
Split1(s, c) ==
    IF Find(s, c) = 0 THEN <<s>>
    ELSE <<SubSeq(s, 1, Find(s, c) - 1), SubSeq(s, Find(s, c) + 1, Len(s))>>

\* os.path.basename
basename(p) == SubSeq(p, RFind(p, "/") + 1, Len(p))

\* pathlib.Path(name).stem for a name without separators
stem(name) ==
    IF RFind(name, ".") > 1 /\ RFind(name, ".") < Len(name)
    THEN SubSeq(name, 1, RFind(name, ".") - 1)
    ELSE name

\* str.rstrip(c)
RECURSIVE rstrip(_, _)
rstrip(s, c) ==
    IF s # <<>> /\ s[Len(s)] = c THEN rstrip(SubSeq(s, 1, Len(s) - 1), c) ELSE s

\* parts = uri.replace("s3://", "").split("/", 1); return parts[0], parts[1]
\* parts[1] raises IndexError when the split yields one part
parse_s3_uri(uri) ==
    LET parts == Split1(Replace(uri, S3_SCHEME), "/")
    IN  IF Len(parts) < 2
        THEN [raised |-> TRUE, bucket |-> <<>>, key |-> <<>>]
        ELSE [raised |-> FALSE, bucket |-> parts[1], key |-> parts[2]]

\* f"{output_prefix.rstrip('/')}/{session_id}/{filename}"
s3_key(output_prefix, session_id, filename) ==
    rstrip(output_prefix, "/") \o <<"/">> \o session_id \o <<"/">> \o filename

\* f"s3://{output_bucket}/{s3_key}"
s3_uri(output_bucket, key) == S3_SCHEME \o output_bucket \o <<"/">> \o key

(***************************************************************************)
(* Request bodies.  None is what data.get returns for an absent key and    *)
(* for a JSON null; Absent marks a session_id key that is not in the body. *)
(***************************************************************************)
None == <<"None">>
Absent == <<"Absent">>

URI_A == <<"s", "3", ":", "/", "/", "b", "/", "a", ".", "w">>
URI_B == <<"s", "3", ":", "/", "/", "b", "/", "d", "/", "a", ".", "w">>
URI_NOKEY == <<"s", "3", ":", "/", "/", "b">>
OUT_P == <<"s", "3", ":", "/", "/", "o", "/", "p", "/">>
OUT_NOKEY == <<"s", "3", ":", "/", "/", "o">>
SESSION_1 == <<"s", "1">>

InputValues == {None, <<>>, URI_A, URI_B, URI_NOKEY}
OutputValues == {None, <<>>, OUT_P, OUT_NOKEY}
SessionValues == {Absent, SESSION_1}

Bodies ==
    {[kind |-> "invalid", input_s3_uri |-> None, output_s3_prefix |-> None,
      session_id |-> Absent],
     [kind |-> "nonobject", input_s3_uri |-> None, output_s3_prefix |-> None,
      session_id |-> Absent]}
    \cup [kind : {"object"}, input_s3_uri : InputValues,
          output_s3_prefix : OutputValues, session_id : SessionValues]

\* Python truthiness of a str-or-None value: `not v`
Falsy(v) == v = None \/ v = <<>>

\* data.get("session_id", "default")
SessionOf(body) ==
    IF body.session_id = Absent THEN DEFAULT_SESSION ELSE body.session_id

Sessions == {DEFAULT_SESSION, SESSION_1}
FileNames == {basename(parse_s3_uri(u).key) : u \in {URI_A, URI_B}}
Stems == {stem(n) : n \in FileNames}

\* the two stems written by --two-stems vocals
VOCALS == <<"v", ".", "w">>
NO_VOCALS == <<"n", ".", "w">>
StemFiles == {VOCALS, NO_VOCALS}
Stderrs == {"stderr-1", "stderr-2"}

\* result.returncode and result.stderr of subprocess.run; the handler uses
\* the stderr text only when the return code is not 0 (lines 66-67), so a
\* run that exits 0 is given one stderr text
ToolResults ==
    {[returncode |-> 0, stderr |-> ""]} \cup [returncode : {1}, stderr : Stderrs]

NoFiles == [f \in StemFiles |-> 0]
NoDir == [exists |-> FALSE, files |-> NoFiles]

\* what one run of the separation tool leaves on disk: whether it created
\* <output_path>/htdemucs/<stem>/ and which files it wrote there
ToolOutputs ==
    {o \in [made : BOOLEAN, files : SUBSET StemFiles] : ~o.made => o.files = {}}

(***************************************************************************)
(* Responses.                                                              *)
(***************************************************************************)
TRACEBACK == "Traceback (most recent call last)"

\* lines 95-98: error_msg = f"Error: {str(e)}\n{traceback.format_exc()}"
ErrorResponse(msg) ==
    [status |-> 500, body |-> [error |-> <<"Error: ">> \o msg \o <<"\n", TRACEBACK>>]]

\* line 36
MissingResponse ==
    [status |-> 400, body |-> [error |-> <<"Missing input_s3_uri or output_s3_prefix">>]]

\* lines 89-93
SuccessResponse(session_id, uploaded_files) ==
    [status |-> 200,
     body |-> [status |-> "success", session_id |-> session_id,
               output_files |-> uploaded_files]]

\* the RuntimeError of line 67 without the captured stderr
DemucsFailed_NoStderr(stderr) == <<"Demucs failed\n">>

\* line 67: RuntimeError(f"Demucs failed\n{result.stderr}")
DemucsFailed(stderr) == <<"Demucs failed\n", stderr>>

NoResponse == [status |-> 0, body |-> [error |-> <<>>]]

(***************************************************************************)
(* State after construction: lines 14-19 created empty /tmp/uploads and    *)
(* /tmp/output; no request is in progress.                                 *)
(***************************************************************************)
NoRequest ==
    [id |-> 0, data |-> [kind |-> "none"], input_bucket |-> <<>>,
     input_key |-> <<>>, output_bucket |-> <<>>, output_prefix |-> <<>>,
     session_id |-> <<>>, input_filename |-> <<>>, listing |-> {},
     uploaded_files |-> <<>>, produced |-> {}, sent |-> {}]

Init ==
    /\ pc = [w \in Workers |-> "idle"]
    /\ req = [w \in Workers |-> NoRequest]
    /\ resp = [w \in Workers |-> NoResponse]
    /\ calls = [w \in Workers |-> <<>>]
    /\ uploadDir = [n \in FileNames |-> 0]
    /\ outDirs = {}
    /\ sep = [d \in Sessions \X Stems |-> NoDir]
    /\ s3 = {}
    /\ nextId = 1
    /\ cleanupThrew = FALSE
    /\ raced = {}

\* separated_dir = os.path.join(output_path, "htdemucs", Path(input_filename).stem)
separated_dir(r) == <<r.session_id, stem(r.input_filename)>>

\* the except clause of invocations: return jsonify({"error": error_msg}), 500
Raise(w, msg) ==
    /\ resp' = [resp EXCEPT ![w] = ErrorResponse(msg)]
    /\ pc' = [pc EXCEPT ![w] = "done"]

Log(w, entry) == calls' = [calls EXCEPT ![w] = Append(@, entry)]

\* the presence check written as `is None`: an empty string passes
Validate_NoneOnly(body) ==
    IF body.kind = "invalid" THEN "JSONDecodeError"
    ELSE IF body.kind = "nonobject" THEN "AttributeError"
    ELSE IF body.input_s3_uri = None \/ body.output_s3_prefix = None THEN "missing"
    ELSE "ok"

\* lines 30-36: json.loads, the three data.get and the presence check
Validate(body) ==
    IF body.kind = "invalid" THEN "JSONDecodeError"
    ELSE IF body.kind = "nonobject" THEN "AttributeError"
    ELSE IF Falsy(body.input_s3_uri) \/ Falsy(body.output_s3_prefix) THEN "missing"
    ELSE "ok"

\* lines 29-42: a worker thread takes a request and runs the handler up to
\* the download
Receive(w) ==
    /\ pc[w] \in {"idle", "done"}
    /\ nextId <= MaxRequests
    /\ \E body \in Bodies :
        LET v == Validate(body)
            inp == parse_s3_uri(body.input_s3_uri)
            out == parse_s3_uri(body.output_s3_prefix)
            fresh == [NoRequest EXCEPT !.id = nextId, !.data = body]
        IN  /\ calls' = [calls EXCEPT ![w] = <<>>]
            /\ IF v = "missing"
               THEN /\ resp' = [resp EXCEPT ![w] = MissingResponse]
                    /\ pc' = [pc EXCEPT ![w] = "done"]
                    /\ req' = [req EXCEPT ![w] = fresh]
               ELSE IF v # "ok"
               THEN /\ Raise(w, <<v>>)
                    /\ req' = [req EXCEPT ![w] = fresh]
               ELSE IF inp.raised \/ out.raised
               THEN /\ Raise(w, <<"IndexError">>)
                    /\ req' = [req EXCEPT ![w] = fresh]
               ELSE /\ req' = [req EXCEPT ![w] =
                           [fresh EXCEPT !.input_bucket = inp.bucket,
                                         !.input_key = inp.key,
                                         !.output_bucket = out.bucket,
                                         !.output_prefix = out.key,
                                         !.session_id = SessionOf(body),
                                         !.input_filename = basename(inp.key)]]
                    /\ resp' = [resp EXCEPT ![w] = NoResponse]
                    /\ pc' = [pc EXCEPT ![w] = "download"]
    /\ nextId' = nextId + 1
    /\ raced' = raced \ {w}
    /\ UNCHANGED <<uploadDir, outDirs, sep, s3, cleanupThrew>>

\* the download in a try/except that logs the failure and goes on
Download_IgnoreFailure(w) ==
    /\ pc[w] = "download"
    /\ \E ok \in BOOLEAN :
        /\ Log(w, [op |-> "download_file", ok |-> ok,
                   arg |-> <<req[w].input_bucket, req[w].input_key,
                             req[w].input_filename>>])
        /\ uploadDir' = IF ok
                        THEN [uploadDir EXCEPT ![req[w].input_filename] = req[w].id]
                        ELSE uploadDir
        /\ pc' = [pc EXCEPT ![w] = "makedirs"]
        /\ UNCHANGED resp
    /\ UNCHANGED <<req, outDirs, sep, s3, nextId, cleanupThrew, raced>>

\* line 45: s3_client.download_file(input_bucket, input_key, local_input_path)
Download(w) ==
    /\ pc[w] = "download"
    /\ \E ok \in BOOLEAN :
        /\ Log(w, [op |-> "download_file", ok |-> ok,
                   arg |-> <<req[w].input_bucket, req[w].input_key,
                             req[w].input_filename>>])
        /\ IF ok
           THEN /\ uploadDir' = [uploadDir EXCEPT ![req[w].input_filename] = req[w].id]
                /\ pc' = [pc EXCEPT ![w] = "makedirs"]
                /\ UNCHANGED resp
           ELSE /\ Raise(w, <<"ClientError">>)
                /\ UNCHANGED uploadDir
    /\ UNCHANGED <<req, outDirs, sep, s3, nextId, cleanupThrew, raced>>

\* lines 48-49: os.makedirs(output_path, exist_ok=True)
MakeDirs(w) ==
    /\ pc[w] = "makedirs"
    /\ \E ok \in BOOLEAN :
        /\ Log(w, [op |-> "makedirs", ok |-> ok, arg |-> req[w].session_id])
        /\ IF ok
           THEN /\ outDirs' = outDirs \cup {req[w].session_id}
                /\ pc' = [pc EXCEPT ![w] = "run"]
                /\ UNCHANGED resp
           ELSE /\ Raise(w, <<"OSError">>)
                /\ UNCHANGED outDirs
    /\ UNCHANGED <<req, uploadDir, sep, s3, nextId, cleanupThrew, raced>>

\* the files of a directory after a tool run of request id wrote `files`
Written(dir, files, id) ==
    [exists |-> TRUE,
     files |-> [f \in StemFiles |-> IF f \in files THEN id ELSE dir.files[f]]]

\* lines 61-67: subprocess.run of demucs.separate and the returncode check.
\* The tool is external: its exit code, stderr and output are inputs; it
\* writes nothing when its input file is not on disk.
RunTool(w) ==
    /\ pc[w] = "run"
    /\ \E result \in ToolResults, o \in ToolOutputs :
        /\ uploadDir[req[w].input_filename] = 0 => ~o.made
        /\ Log(w, [op |-> "run", ok |-> (result.returncode = 0),
                   arg |-> <<result.returncode, result.stderr>>])
        /\ IF o.made
           THEN /\ sep' = [sep EXCEPT ![separated_dir(req[w])] =
                               Written(@, o.files, req[w].id)]
                /\ outDirs' = outDirs \cup {req[w].session_id}
           ELSE UNCHANGED <<sep, outDirs>>
        /\ req' = [req EXCEPT ![w].produced = o.files]
        /\ IF result.returncode # 0
           THEN Raise(w, DemucsFailed(result.stderr))
           ELSE /\ pc' = [pc EXCEPT ![w] = "scan"]
                /\ UNCHANGED resp
    /\ UNCHANGED <<uploadDir, s3, nextId, cleanupThrew, raced>>

\* the scan without the existence check of lines 73-74: a missing directory
\* lists as empty
Scan_NoExistsCheck(w) ==
    /\ pc[w] = "scan"
    /\ LET dir == sep[separated_dir(req[w])]
           names == {f \in StemFiles : dir.files[f] # 0}
       IN  /\ Log(w, [op |-> "listdir", ok |-> TRUE, arg |-> names])
           /\ req' = [req EXCEPT ![w].listing = names]
           /\ pc' = [pc EXCEPT ![w] = IF names = {} THEN "cleanup" ELSE "upload"]
           /\ UNCHANGED resp
    /\ UNCHANGED <<uploadDir, outDirs, sep, s3, nextId, cleanupThrew, raced>>

\* lines 69-77: os.path.exists(separated_dir) and os.listdir(separated_dir)
Scan(w) ==
    /\ pc[w] = "scan"
    /\ LET dir == sep[separated_dir(req[w])]
           names == {f \in StemFiles : dir.files[f] # 0}
       IN  IF ~dir.exists
           THEN /\ Log(w, [op |-> "listdir", ok |-> FALSE, arg |-> {}])
                /\ Raise(w, <<"Output not found. Demucs path may be wrong.">>)
                /\ UNCHANGED req
           ELSE /\ Log(w, [op |-> "listdir", ok |-> TRUE, arg |-> names])
                /\ req' = [req EXCEPT ![w].listing = names]
                /\ pc' = [pc EXCEPT ![w] = IF names = {} THEN "cleanup" ELSE "upload"]
                /\ UNCHANGED resp
    /\ UNCHANGED <<uploadDir, outDirs, sep, s3, nextId, cleanupThrew, raced>>

\* the loop body with the upload in a try/except that goes on to the next
\* file
Upload_SwallowFailure(w) ==
    /\ pc[w] = "upload"
    /\ \E f \in req[w].listing, transfer \in BOOLEAN :
        LET dir == sep[separated_dir(req[w])]
            key == s3_key(req[w].output_prefix, req[w].session_id, f)
            ok == dir.exists /\ dir.files[f] # 0 /\ transfer
            rest == req[w].listing \ {f}
        IN  /\ Log(w, [op |-> "upload_file", ok |-> ok,
                       arg |-> <<f, req[w].output_bucket, key>>])
            /\ s3' = IF ok THEN s3 \cup {<<req[w].output_bucket, key>>} ELSE s3
            /\ req' = [req EXCEPT
                   ![w].uploaded_files =
                       IF ok
                       THEN Append(@, [filename |-> f,
                                       s3_uri |-> s3_uri(req[w].output_bucket, key)])
                       ELSE @,
                   ![w].listing = rest,
                   ![w].sent = IF ok THEN @ \cup {<<f, dir.files[f]>>} ELSE @]
            /\ pc' = [pc EXCEPT ![w] = IF rest = {} THEN "cleanup" ELSE "upload"]
            /\ UNCHANGED resp
    /\ UNCHANGED <<uploadDir, outDirs, sep, nextId, cleanupThrew, raced>>

\* lines 78-85: one iteration of the loop over os.listdir's snapshot, taken
\* in any order; upload_file raises when the local file is gone or the
\* transfer fails
Upload(w) ==
    /\ pc[w] = "upload"
    /\ \E f \in req[w].listing, transfer \in BOOLEAN :
        LET dir == sep[separated_dir(req[w])]
            key == s3_key(req[w].output_prefix, req[w].session_id, f)
            ok == dir.exists /\ dir.files[f] # 0 /\ transfer
            rest == req[w].listing \ {f}
        IN  /\ Log(w, [op |-> "upload_file", ok |-> ok,
                       arg |-> <<f, req[w].output_bucket, key>>])
            /\ IF ok
               THEN /\ s3' = s3 \cup {<<req[w].output_bucket, key>>}
                    /\ req' = [req EXCEPT
                           ![w].uploaded_files =
                               Append(@, [filename |-> f,
                                          s3_uri |-> s3_uri(req[w].output_bucket, key)]),
                           ![w].listing = rest,
                           ![w].sent = @ \cup {<<f, dir.files[f]>>}]
                    /\ pc' = [pc EXCEPT ![w] = IF rest = {} THEN "cleanup" ELSE "upload"]
                    /\ UNCHANGED resp
               ELSE /\ Raise(w, <<"S3UploadFailedError">>)
                    /\ UNCHANGED <<s3, req>>
    /\ UNCHANGED <<uploadDir, outDirs, sep, nextId, cleanupThrew, raced>>

\* lines 106-114: one try block around both removals; removeThrows and
\* rmtreeThrows say whether os.remove and shutil.rmtree raise when called
cleanup_local_files(input_filename, session_id, removeThrows, rmtreeThrows) ==
    LET hasInput == uploadDir[input_filename] # 0
        threw1 == hasInput /\ removeThrows
        hasOutput == ~threw1 /\ session_id \in outDirs
        threw2 == hasOutput /\ rmtreeThrows
    IN  [uploadDir |-> IF hasInput /\ ~threw1
                       THEN [uploadDir EXCEPT ![input_filename] = 0]
                       ELSE uploadDir,
         outDirs |-> IF hasOutput /\ ~threw2 THEN outDirs \ {session_id} ELSE outDirs,
         sep |-> IF hasOutput /\ ~threw2
                 THEN [d \in DOMAIN sep |-> IF d[1] = session_id THEN NoDir ELSE sep[d]]
                 ELSE sep,
         attempted |-> (IF hasInput THEN <<"remove">> ELSE <<>>)
                       \o (IF hasOutput THEN <<"rmtree">> ELSE <<>>),
         threw |-> threw1 \/ threw2]

\* the workers, other than w, that lose a file they produced and have not
\* yet uploaded when the directory of session_id is removed
Losers(w, session_id) ==
    {v \in Workers \ {w} :
        /\ pc[v] \in {"scan", "upload"}
        /\ req[v].session_id = session_id
        /\ \E f \in StemFiles :
            /\ sep[separated_dir(req[v])].files[f] = req[v].id
            /\ pc[v] = "upload" => f \in req[v].listing}

\* lines 87-93: cleanup_local_files, then the 200 response
Cleanup(w) ==
    /\ pc[w] = "cleanup"
    /\ \E removeThrows \in BOOLEAN, rmtreeThrows \in BOOLEAN :
        LET c == cleanup_local_files(req[w].input_filename, req[w].session_id,
                                     removeThrows, rmtreeThrows)
        IN  /\ Log(w, [op |-> "cleanup_local_files", ok |-> ~c.threw,
                       arg |-> c.attempted])
            /\ uploadDir' = c.uploadDir
            /\ outDirs' = c.outDirs
            /\ sep' = c.sep
            /\ cleanupThrew' = (cleanupThrew \/ c.threw)
            /\ raced' = IF c.outDirs # outDirs
                        THEN raced \cup Losers(w, req[w].session_id)
                        ELSE raced
    /\ resp' = [resp EXCEPT ![w] =
                   SuccessResponse(req[w].session_id, req[w].uploaded_files)]
    /\ pc' = [pc EXCEPT ![w] = "done"]
    /\ UNCHANGED <<req, s3, nextId>>

Step(w) ==
    \/ Receive(w)
    \/ Download(w)
    \/ MakeDirs(w)
    \/ RunTool(w)
    \/ Scan(w)
    \/ Upload(w)
    \/ Cleanup(w)

\* one request at a time on worker 1: each request starts after the
\* previous response was returned, on the disk the previous requests left
Next == Step(1)

Spec == Init /\ [][Next]_vars

\* two concurrent requests, one per worker thread, on a fresh disk
StepOnce(w) ==
    \/ pc[w] = "idle" /\ Receive(w)
    \/ Download(w)
    \/ MakeDirs(w)
    \/ RunTool(w)
    \/ Scan(w)
    \/ Upload(w)
    \/ Cleanup(w)

NextConc == \E w \in Workers : StepOnce(w)

SpecConc == Init /\ [][NextConc]_vars

TypeOK ==
    /\ pc \in [Workers -> {"idle", "download", "makedirs", "run", "scan",
                           "upload", "cleanup", "done"}]
    /\ nextId \in 1..(MaxRequests + 1)
    /\ uploadDir \in [FileNames -> 0..MaxRequests]
    /\ outDirs \subseteq Sessions
    /\ \A d \in DOMAIN sep : sep[d].exists => d[1] \in outDirs

(***************************************************************************)
(* Vocabulary of the properties.                                           *)
(***************************************************************************)
Done(w) == pc[w] = "done"
InFlight(w) == pc[w] \notin {"idle", "done"}
Status(w) == resp[w].status
CallIdx(w) == 1..Len(calls[w])
Called(w, op) == \E i \in CallIdx(w) : calls[w][i].op = op
CalledOk(w, op) == \E i \in CallIdx(w) : calls[w][i].op = op /\ calls[w][i].ok
HasKey(uri) == \E i \in 1..Len(Replace(uri, S3_SCHEME)) : Replace(uri, S3_SCHEME)[i] = "/"
MissingField(body) == Falsy(body.input_s3_uri) \/ Falsy(body.output_s3_prefix)
WellFormed(body) == body.kind = "object" /\ ~MissingField(body)
Staged(w) == req[w].input_filename # <<>>
OutputNames(w) ==
    {resp[w].body.output_files[i].filename :
        i \in 1..Len(resp[w].body.output_files)}

(***************************************************************************)
(* C1: after every request, whatever its outcome, and provided no cleanup  *)
(* call threw, the local input file and /tmp/output/<session_id> are       *)
(* absent when the response is returned.  The code calls                   *)
(* cleanup_local_files on the success path only (line 87).                 *)
(***************************************************************************)
C1_ScratchAbsentAfterRequest ==
    \A w \in Workers :
        (Done(w) /\ Staged(w) /\ ~cleanupThrew) =>
            /\ uploadDir[req[w].input_filename] = 0
            /\ req[w].session_id \notin outDirs

(***************************************************************************)
(* C2 as stated: every request in which input_s3_uri or output_s3_prefix   *)
(* is missing gets exactly HTTP 400 with an error key, before any I/O.     *)
(* A body that is not a JSON object holds neither field.                   *)
(***************************************************************************)
C2_MissingFieldIs400 ==
    \A w \in Workers :
        (Done(w) /\ MissingField(req[w].data)) =>
            /\ Status(w) = 400
            /\ "error" \in DOMAIN resp[w].body
            /\ calls[w] = <<>>

(***************************************************************************)
(* C2 amended: every request whose body is a JSON object in which          *)
(* input_s3_uri or output_s3_prefix is absent, null or empty gets exactly  *)
(* HTTP 400 with an error key, and has made no I/O call.                   *)
(***************************************************************************)
C2_MissingFieldOfObjectIs400 ==
    \A w \in Workers :
        (Done(w) /\ req[w].data.kind = "object" /\ MissingField(req[w].data)) =>
            /\ Status(w) = 400
            /\ DOMAIN resp[w].body = {"error"}
            /\ calls[w] = <<>>
            /\ ~Staged(w)

C2_Witness ==
    \E w \in Workers :
        /\ Done(w)
        /\ req[w].data.kind = "object"
        /\ req[w].data.input_s3_uri = <<>>
        /\ ~Falsy(req[w].data.output_s3_prefix)
        /\ Status(w) = 400

(***************************************************************************)
(* C3: of two sequential requests with the same session_id, the second     *)
(* never sees stale files: the listing of its scan holds only files that   *)
(* its own tool run produced (stated for runs in which no cleanup threw).  *)
(***************************************************************************)
C3_ScanSeesOnlyOwnFiles ==
    \A w \in Workers :
        ~cleanupThrew =>
            \A i \in CallIdx(w) :
                (calls[w][i].op = "listdir" /\ calls[w][i].ok) =>
                    calls[w][i].arg \subseteq req[w].produced

(***************************************************************************)
(* C4 as stated: every well-formed request reaches the tool invocation.    *)
(***************************************************************************)
C4_WellFormedReachesTool ==
    \A w \in Workers :
        (Done(w) /\ WellFormed(req[w].data)) => Called(w, "run")

(***************************************************************************)
(* C4 amended: a well-formed request is never answered 400; it reaches the *)
(* tool invocation exactly when both URIs decompose, the download succeeds *)
(* and the output directory is created; otherwise it ends with HTTP 500    *)
(* before the tool is invoked.                                             *)
(***************************************************************************)
C4_WellFormedPassesValidation ==
    \A w \in Workers :
        (Done(w) /\ WellFormed(req[w].data)) =>
            /\ Status(w) # 400
            /\ Called(w, "run") <=>
                   /\ HasKey(req[w].data.input_s3_uri)
                   /\ HasKey(req[w].data.output_s3_prefix)
                   /\ CalledOk(w, "download_file")
                   /\ CalledOk(w, "makedirs")
            /\ ~Called(w, "run") => Status(w) = 500

C4_Witness ==
    \E w \in Workers :
        /\ Done(w)
        /\ WellFormed(req[w].data)
        /\ req[w].data.session_id = Absent
        /\ Called(w, "run")

(***************************************************************************)
(* C5: a 200 response lists exactly the files that the request's tool run  *)
(* produced, one entry each, with s3_uri =                                 *)
(* s3://<output_bucket>/<prefix without trailing slash>/<session>/<name>,  *)
(* and each was stored under that bucket and key (stated for runs in which *)
(* no cleanup threw).                                                      *)
(***************************************************************************)
C5_OutputFilesAreTheProducedFiles ==
    \A w \in Workers :
        (Done(w) /\ Status(w) = 200 /\ ~cleanupThrew) =>
            LET files == resp[w].body.output_files
            IN  /\ OutputNames(w) = req[w].produced
                /\ Len(files) = Cardinality(req[w].produced)
                /\ resp[w].body.status = "success"
                /\ resp[w].body.session_id = req[w].session_id
                /\ \A i \in 1..Len(files) :
                    LET key == rstrip(req[w].output_prefix, "/") \o <<"/">>
                               \o req[w].session_id \o <<"/">> \o files[i].filename
                    IN  /\ files[i].s3_uri =
                               S3_SCHEME \o req[w].output_bucket \o <<"/">> \o key
                        /\ <<req[w].output_bucket, key>> \in s3

(***************************************************************************)
(* C6: whenever the separation subprocess exits with a non-zero code, the  *)
(* response is HTTP 500 with a body {error: <string>} whose string         *)
(* contains the captured stderr, and the request uploads no file.          *)
(***************************************************************************)
C6_ToolFailureIs500WithStderr ==
    \A w \in Workers :
        \A i \in CallIdx(w) :
            (calls[w][i].op = "run" /\ calls[w][i].arg[1] # 0) =>
                /\ Done(w)
                /\ Status(w) = 500
                /\ DOMAIN resp[w].body = {"error"}
                /\ \E j \in 1..Len(resp[w].body.error) :
                       resp[w].body.error[j] = calls[w][i].arg[2]
                /\ ~Called(w, "upload_file")
                /\ req[w].uploaded_files = <<>>

C6_Witness ==
    \E w \in Workers :
        /\ Done(w)
        /\ \E i \in CallIdx(w) :
            /\ calls[w][i].op = "run"
            /\ calls[w][i].arg = <<1, "stderr-2">>
        /\ req[w].produced # {}

(***************************************************************************)
(* C7: two concurrent requests with distinct session ids never touch each  *)
(* other's scratch files: a request that has staged its input and has not  *)
(* yet run the tool still finds its own download at its local input path,  *)
(* and a request between its tool run and the end of its uploads still     *)
(* finds every file it produced and has not yet uploaded.  The local input *)
(* path is /tmp/uploads/<basename> whatever the session (lines 41-42).     *)
(***************************************************************************)
C7_DistinctSessionsAreIsolated ==
    \A w \in Workers : \A v \in Workers \ {w} :
        (InFlight(w) /\ InFlight(v) /\ req[w].session_id # req[v].session_id) =>
            /\ pc[w] \in {"makedirs", "run"} =>
                   uploadDir[req[w].input_filename] = req[w].id
            /\ pc[w] \in {"scan", "upload"} =>
                   \A f \in req[w].produced :
                       (pc[w] = "scan" \/ f \in req[w].listing) =>
                           sep[separated_dir(req[w])].files[f] = req[w].id

(***************************************************************************)
(* C8: two concurrent requests with the same session_id race on            *)
(* /tmp/output/<session_id>: when one's cleanup removes the directory      *)
(* while the other is between its tool run and the end of its uploads,     *)
(* with a produced file not yet uploaded, the other fails with HTTP 500 or *)
(* uploads a file it did not produce.                                      *)
(***************************************************************************)
C8_RacedRequestFailsOrUploadsForeign ==
    \A v \in raced :
        Done(v) =>
            \/ Status(v) = 500
            \/ \E x \in req[v].sent : x[2] # req[v].id

C8_Witness ==
    \E v \in raced : \E w \in Workers \ {v} :
        /\ Done(v)
        /\ Status(v) = 500
        /\ Done(w)
        /\ Status(w) = 200
        /\ req[v].data.session_id = Absent
        /\ req[w].data.session_id = Absent
        /\ req[v].session_id = DEFAULT_SESSION

(***************************************************************************)
(* C9: a cleanup failure never changes the response: when every upload     *)
(* succeeded and a removal throws, removal of both the input file and the  *)
(* output directory has been attempted and the response is the 200         *)
(* response of a clean run.  Both removals share one try block (lines      *)
(* 107-111), so a throwing os.remove skips shutil.rmtree.                  *)
(***************************************************************************)
C9_CleanupFailureAttemptsBoth ==
    \A w \in Workers :
        \A i \in CallIdx(w) :
            (calls[w][i].op = "cleanup_local_files" /\ ~calls[w][i].ok) =>
                /\ Done(w)
                /\ resp[w] = SuccessResponse(req[w].session_id, req[w].uploaded_files)
                /\ calls[w][i].arg = <<"remove", "rmtree">>

(***************************************************************************)
(* C10: a 200 response implies, in order, a completed download, a tool run *)
(* that exited 0, an existing output directory, a successful upload of     *)
(* every listed file, then cleanup; a failure of one of the steps ends the *)
(* request at that step with HTTP 500 and a body {error: <string>}, with   *)
(* no call after the failing one, and the files uploaded before it stay in *)
(* the bucket.                                                             *)
(***************************************************************************)
C10_SuccessOnlyForFullLifecycle ==
    \A w \in Workers :
        LET c == calls[w]
            n == Len(c)
        IN  /\ (Done(w) /\ Status(w) = 200) =>
                /\ n >= 5
                /\ c[1].op = "download_file" /\ c[1].ok
                /\ c[2].op = "makedirs" /\ c[2].ok
                /\ c[3].op = "run" /\ c[3].arg[1] = 0
                /\ c[4].op = "listdir" /\ c[4].ok
                /\ \A i \in 5..(n - 1) : c[i].op = "upload_file" /\ c[i].ok
                /\ {c[i].arg[1] : i \in 5..(n - 1)} = c[4].arg
                /\ n - 5 = Cardinality(c[4].arg)
                /\ c[n].op = "cleanup_local_files"
                /\ OutputNames(w) = c[4].arg
            /\ (Done(w) /\ Status(w) = 500) =>
                /\ DOMAIN resp[w].body = {"error"}
                /\ n > 0 => ~c[n].ok
                /\ \A i \in 1..(n - 1) : c[i].ok
                /\ ~Called(w, "cleanup_local_files")
                /\ \A i \in 1..n :
                    (c[i].op = "upload_file" /\ c[i].ok) =>
                        <<c[i].arg[2], c[i].arg[3]>> \in s3
            /\ \A i \in 1..n :
                (~c[i].ok /\ c[i].op # "cleanup_local_files") =>
                    Done(w) /\ Status(w) = 500 /\ i = n

C10_Witness ==
    \E w \in Workers :
        /\ Done(w)
        /\ Status(w) = 500
        /\ Len(calls[w]) = 6
        /\ calls[w][5].op = "upload_file" /\ calls[w][5].ok
        /\ calls[w][6].op = "upload_file" /\ ~calls[w][6].ok
        /\ <<calls[w][5].arg[2], calls[w][5].arg[3]>> \in s3

====
